---- MODULE Spec2Model ----
(***************************************************************************)
(* Model of src/scrape.mjs (the current revision, lines 91-285): the       *)
(* "You might be interested in" scraper.  A run waits for the section,     *)
(* extracts up to MAX_ITEMS cards inside the page, normalises them,        *)
(* fetches an og:image for each one through mapWithConcurrency and writes  *)
(* the payload.                                                            *)
(*                                                                         *)
(* Strings are sequences of tokens.  A token is a run of characters that   *)
(* the code never looks inside: "https:", "/", a host name, a path         *)
(* segment, a word, one whitespace character.  The empty string is << >>.  *)
(***************************************************************************)
EXTENDS Integers, Sequences, FiniteSets, TLC

VARIABLES
    pc,          \* position of the main async function
    dom,         \* the rendered page: [text, headings, depth, anchors]
    baseItems,   \* result of page.evaluate (line 194)
    cleaned,     \* line 261
    limit,       \* the `limit` argument of mapWithConcurrency
    results,     \* mapWithConcurrency's `results` array
    i,           \* mapWithConcurrency's shared cursor `i`
    workers,     \* the worker() coroutines: [st, idx]
    outstanding, \* mapper calls started and not yet settled: [w, idx]
    invoked,     \* per index, how many times the mapper was called
    fetched,     \* per index, how many fetch() requests were sent
    outcome,     \* per index, how the secondary fetch ended
    returned,    \* per index, the value the mapper call returned
    faults,      \* transport failures injected so far
    payload      \* the written payload's items, or NoPayload

vars == <<pc, dom, baseItems, cleaned, limit, results, i, workers,
          outstanding, invoked, fetched, outcome, returned, faults, payload>>

----------------------------------------------------------------------------
(* Bounds of the model *)

MaxN == 5          \* longest item list given directly to mapWithConcurrency
MaxLimit == 4      \* largest `limit` tried in the limiter specification
MaxFaults == 1     \* transport failures (network error, timeout) per run

(* Program constants *)

MAX_ITEMS == 8
MIN_LINKS == 12
CLIMB_DEPTH == 10
CONCURRENCY == 3

----------------------------------------------------------------------------
(* Strings *)

StartsWith(s, p) ==
    /\ Len(s) >= Len(p)
    /\ \A k \in 1..Len(p) : s[k] = p[k]

Origin == <<"https:", "/", "/", "intermountainhealthcare.org">>

absUrl(href) ==
    IF href = <<>> THEN <<>>
    ELSE IF StartsWith(href, <<"http:", "/", "/">>)
            \/ StartsWith(href, <<"https:", "/", "/">>) THEN href
    ELSE IF StartsWith(href, <<"/", "/">>) THEN <<"https:">> \o href
    ELSE IF StartsWith(href, <<"/">>) THEN Origin \o href
    ELSE href

WS == {" ", "\n", "\t"}

RECURSIVE Collapse(_)
Collapse(s) ==
    IF s = <<>> THEN <<>>
    ELSE IF Head(s) \in WS
         THEN IF Len(s) >= 2 /\ s[2] \in WS
              THEN Collapse(Tail(s))
              ELSE <<" ">> \o Collapse(Tail(s))
         ELSE <<Head(s)>> \o Collapse(Tail(s))

RECURSIVE TrimLeft(_)
TrimLeft(s) ==
    IF s # <<>> /\ Head(s) \in WS THEN TrimLeft(Tail(s)) ELSE s

RECURSIVE TrimRight(_)
TrimRight(s) ==
    IF s # <<>> /\ s[Len(s)] \in WS
    THEN TrimRight(SubSeq(s, 1, Len(s) - 1)) ELSE s

cleanText(s) == TrimRight(TrimLeft(Collapse(s)))

norm(s) == cleanText(s)

CharLen(t) ==
    CASE t = "News" -> 4
      [] t = "Health" -> 6
      [] t = "Heart-care-program-expands-to-serve-more-southern-Utah-families" -> 63
      [] t = "A-label-that-is-too-long-to-be-a-category-tag-here" -> 50
      [] OTHER -> 1

RECURSIVE StrLen(_)
StrLen(s) == IF s = <<>> THEN 0 ELSE CharLen(Head(s)) + StrLen(Tail(s))

Min(a, b) == IF a <= b THEN a ELSE b

----------------------------------------------------------------------------
(* Records *)

Undefined == [undefined |-> TRUE]      \* a hole of `new Array(n)`
NoPayload == [written |-> FALSE]
NoDom == [text |-> FALSE, headings |-> <<>>, depth |-> 0, anchors |-> <<>>]

Item(title, url, category, description, imageUrl) ==
    [title |-> title, url |-> url, category |-> category,
     description |-> description, imageUrl |-> imageUrl]

----------------------------------------------------------------------------
(* The article pages the secondary fetch reaches: a response is            *)
(* [ok, body], the body a sequence of <meta> tags in document order.       *)

Meta(attr, key, content, contentFirst) ==
    [attr |-> attr, key |-> key, content |-> content,
     contentFirst |-> contentFirst]

OgTag == Meta("property", "og:image",
              <<"https:", "/", "/", "cdn.example", "/", "og.png">>, FALSE)
OgTagContentFirst == Meta("property", "og:image",
                          <<"/", "/", "cdn.example", "/", "og2.png">>, TRUE)
TwitterTag == Meta("name", "twitter:image", <<"/", "img", "/", "tw.png">>, FALSE)
EmptyOgTag == Meta("property", "og:image", <<>>, FALSE)

Slug(url) == IF url = <<>> THEN "" ELSE url[Len(url)]

Web(url) ==
    CASE Slug(url) \in {"s1", "s6", "s11"} ->
             [ok |-> TRUE, body |-> <<TwitterTag, OgTag>>]
      [] Slug(url) \in {"s2", "s7", "s12"} ->
             [ok |-> FALSE, body |-> <<OgTag>>]
      [] Slug(url) \in {"s3", "s8", "s13"} ->
             [ok |-> TRUE, body |-> <<EmptyOgTag, TwitterTag>>]
      [] Slug(url) \in {"s4", "s9", "s14"} ->
             [ok |-> TRUE, body |-> <<OgTagContentFirst, TwitterTag>>]
      [] OTHER -> [ok |-> TRUE, body |-> <<>>]

----------------------------------------------------------------------------
(* fetchOgImage, lines 117-159 *)

\* html.match(/<meta ... attr="key" ... content="([^"']+)" .../i): the
\* content of the first tag of that shape whose content is non-empty.
RECURSIVE MatchMeta(_, _, _, _)
MatchMeta(body, attr, key, contentFirst) ==
    IF body = <<>> THEN <<>>
    ELSE LET t == Head(body) IN
         IF /\ t.attr = attr
            /\ t.key = key
            /\ t.contentFirst = contentFirst
            /\ t.content # <<>>
         THEN t.content
         ELSE MatchMeta(Tail(body), attr, key, contentFirst)

FirstOf(m1, m2) == IF m1 # <<>> THEN m1 ELSE m2

ExtractImage(body) ==
    LET og == FirstOf(MatchMeta(body, "property", "og:image", FALSE),
                      MatchMeta(body, "property", "og:image", TRUE))
        tw == FirstOf(MatchMeta(body, "name", "twitter:image", FALSE),
                      MatchMeta(body, "name", "twitter:image", TRUE))
    IN  IF og # <<>> THEN absUrl(og)
        ELSE IF tw # <<>> THEN absUrl(tw)
        ELSE <<>>

\* variant: the status is never looked at
ResponseAcceptedAlways(res) == TRUE

ResponseAccepted(res) == res.ok

CatchResult == <<>>

----------------------------------------------------------------------------
(* mapWithConcurrency, lines 162-177, with the mapper of lines 270-273 *)

N == Len(cleaned)

\* variant: the record is rebuilt without its texts
MapperResultDropsText(item, img) ==
    Item(item.title, item.url, <<>>, <<>>, img)

MapperResult(item, img) == [item EXCEPT !.imageUrl = img]

\* variant: the cursor advances by two
NextCursorSkips(c) == c + 2

NextCursor(c) == c + 1

\* variant: one worker per item, whatever the limit
WorkerCountPerItem(lim, n) == n

WorkerCount(lim, n) == Min(lim, n)

\* variant: results are appended in completion order
ResultSlotPush(idx, finished) == finished

ResultSlot(idx, finished) == idx

\* The part of worker() from `const idx = i++` to its suspension at line 170.
Claim(items, idx) ==
    IF idx >= Len(items) THEN [st |-> "done", idx |-> idx]
    ELSE [st |-> "fetch", idx |-> idx]

RECURSIVE CursorAfter(_, _)
CursorAfter(c, k) == IF k = 0 THEN c ELSE CursorAfter(NextCursor(c), k - 1)

Bump(f, idx, yes) ==
    IF yes /\ idx \in DOMAIN f THEN [f EXCEPT ![idx] = @ + 1] ELSE f

\* fetchOgImage sends a request unless line 119 returns first.
Requests(items, r) == r.st = "fetch" /\ absUrl(items[r.idx + 1].url) # <<>>

\* Lines 163-175 up to `await Promise.all(workers)`: every worker runs to its
\* first suspension, one after the other.
StartWorkers(items, lim) ==
    LET n == Len(items)
        W == WorkerCount(lim, n)
        ws == [w \in 1..W |-> Claim(items, CursorAfter(0, w - 1))]
        Count(Yes(_)) ==
            [k \in 0..(n - 1) |->
                Cardinality({w \in 1..W : ws[w].idx = k /\ Yes(ws[w])})]
    IN  /\ results' = [k \in 0..(n - 1) |-> Undefined]
        /\ workers' = ws
        /\ i' = CursorAfter(0, W)
        /\ invoked' = Count(LAMBDA r : r.st = "fetch")
        /\ fetched' = Count(LAMBDA r : Requests(items, r))
        /\ outstanding' = {[w |-> w, idx |-> ws[w].idx] :
                              w \in {v \in 1..W : ws[v].st = "fetch"}}
        /\ outcome' = [k \in 0..(n - 1) |-> "none"]
        /\ returned' = [k \in 0..(n - 1) |-> Undefined]
        /\ faults' = 0

Finished == Cardinality({k \in DOMAIN results : results[k] # Undefined})

UrlOf(w) == absUrl(cleaned[workers[w].idx + 1].url)

\* fetch(url) can send a request only to an absolute http(s) URL; for any
\* other string it rejects with a TypeError.
Fetchable(url) ==
    StartsWith(url, <<"http:", "/", "/">>) \/ StartsWith(url, <<"https:", "/", "/">>)

\* fetchOgImage returns `img` to the mapper (line 271), the mapper returns the
\* record (line 272), line 170 stores it, and the loop claims the next index
\* and runs to its next suspension: one chain of microtasks.
Finish(w, img, how) ==
    LET idx == workers[w].idx
        value == MapperResult(cleaned[idx + 1], img)
        nw == Claim(cleaned, i)
    IN  /\ returned' = [returned EXCEPT ![idx] = value]
        /\ outcome' = [outcome EXCEPT ![idx] = how]
        /\ results' = [results EXCEPT ![ResultSlot(idx, Finished)] = value]
        /\ i' = NextCursor(i)
        /\ workers' = [workers EXCEPT ![w] = nw]
        /\ invoked' = Bump(invoked, nw.idx, nw.st = "fetch")
        /\ fetched' = Bump(fetched, nw.idx, Requests(cleaned, nw))
        /\ outstanding' = (outstanding \ {[w |-> w, idx |-> idx]})
                            \cup (IF nw.st = "fetch"
                                  THEN {[w |-> w, idx |-> nw.idx]} ELSE {})
        /\ UNCHANGED <<pc, dom, baseItems, cleaned, limit, payload>>

\* fetch() rejects: the URL cannot be parsed, the network fails, or the 20 s
\* timer of line 122 aborts the request; the catch of line 154 answers.
FetchError(w) ==
    /\ pc = "enrich"
    /\ w \in DOMAIN workers
    /\ workers[w].st = "fetch"
    /\ UrlOf(w) # <<>>
    /\ IF Fetchable(UrlOf(w))
       THEN faults < MaxFaults /\ faults' = faults + 1
       ELSE faults' = faults
    /\ Finish(w, CatchResult, "rejected")

\* Line 119 (no URL) or line 136 (a non-success status) returns "".
FetchNotOk(w) ==
    /\ pc = "enrich"
    /\ w \in DOMAIN workers
    /\ workers[w].st = "fetch"
    /\ \/ UrlOf(w) = <<>>
       \/ Fetchable(UrlOf(w)) /\ ~ResponseAccepted(Web(UrlOf(w)))
    /\ Finish(w, <<>>, IF UrlOf(w) = <<>> THEN "nourl" ELSE "notok")
    /\ UNCHANGED faults

\* fetch() resolves with a success status: res.text() is awaited (line 137).
FetchOk(w) ==
    /\ pc = "enrich"
    /\ w \in DOMAIN workers
    /\ workers[w].st = "fetch"
    /\ Fetchable(UrlOf(w))
    /\ ResponseAccepted(Web(UrlOf(w)))
    /\ workers' = [workers EXCEPT ![w].st = "text"]
    /\ UNCHANGED <<pc, dom, baseItems, cleaned, limit, results, i, outstanding,
                   invoked, fetched, outcome, returned, faults, payload>>

\* res.text() rejects: the connection drops or the timer aborts the body read.
TextError(w) ==
    /\ pc = "enrich"
    /\ w \in DOMAIN workers
    /\ workers[w].st = "text"
    /\ faults < MaxFaults
    /\ faults' = faults + 1
    /\ Finish(w, CatchResult, "cut")

\* res.text() resolves: lines 140-153.
TextOk(w) ==
    /\ pc = "enrich"
    /\ w \in DOMAIN workers
    /\ workers[w].st = "text"
    /\ Finish(w, ExtractImage(Web(UrlOf(w)).body), "ok")
    /\ UNCHANGED faults

ToSeq(f) == [k \in 1..Cardinality(DOMAIN f) |-> f[k - 1]]

\* Promise.all resolves; lines 275-284 build and write the payload.
Emit ==
    /\ pc = "enrich"
    /\ \A w \in DOMAIN workers : workers[w].st = "done"
    /\ payload' = ToSeq(results)
    /\ pc' = "done"
    /\ UNCHANGED <<dom, baseItems, cleaned, limit, results, i, workers,
                   outstanding, invoked, fetched, outcome, returned, faults>>

----------------------------------------------------------------------------
(* The page.  An anchor is an a[href] element of the document, listed in    *)
(* document order:                                                          *)
(*   href       its href attribute,                                         *)
(*   inner      how many h2/h3 elements it contains,                        *)
(*   inHeading  whether it lies inside an h2/h3,                            *)
(*   htext      the text of a.querySelector("h2,h3") || a.closest("h2,h3"), *)
(*   bits       the texts of the p/span/div elements of its card,           *)
(*   level      the lowest ancestor of the section heading that contains    *)
(*              it: 1 is heading.parentElement, dom.depth the root element. *)
(* dom.headings lists the h1..h6 elements in document order, each with its  *)
(* tag and text; the levels refer to the heading the lookup of line 197     *)
(* settles on.  dom.text says that an element other than a heading shows    *)
(* the section phrase.                                                      *)

Heading(tag, text) == [tag |-> tag, text |-> text]

Phrase == <<"you", " ", "might", " ", "be", " ", "interested", " ", "in">>

toLowerCase(s) ==
    [k \in DOMAIN s |->
        CASE s[k] = "You" -> "you"
          [] s[k] = "MIGHT" -> "might"
          [] s[k] = "Interested" -> "interested"
          [] OTHER -> s[k]]

includes(s, p) ==
    \E k \in 0..(Len(s) - Len(p)) : SubSeq(s, k + 1, k + Len(p)) = p

\* variant: h4 elements are searched too
HeadingTagsWithH4 == {"h1", "h2", "h3", "h4"}

\* querySelectorAll("h1,h2,h3")
HeadingTags == {"h1", "h2", "h3"}

\* Lines 197-198: the first matching heading's position, 0 when there is none.
FindHeading(d) ==
    LET hits == {k \in 1..Len(d.headings) :
                    /\ d.headings[k].tag \in HeadingTags
                    /\ includes(toLowerCase(norm(d.headings[k].text)), Phrase)}
    IN  IF hits = {} THEN 0 ELSE CHOOSE k \in hits : \A q \in hits : k <= q

\* The text selector of line 187 matches any element showing the phrase,
\* whatever its case and white space.
PhraseShown(d) ==
    \/ d.text
    \/ \E k \in 1..Len(d.headings) :
          includes(toLowerCase(norm(d.headings[k].text)), Phrase)

Anchor(href, inner, inHeading, htext, bits, level) ==
    [href |-> href, inner |-> inner, inHeading |-> inHeading, htext |-> htext,
     bits |-> bits, level |-> level]

Null == 0

parentElement(d, root) == IF root < d.depth THEN root + 1 ELSE Null

\* root.querySelectorAll("a[href]")
AnchorsUnder(d, root) == SelectSeq(d.anchors, LAMBDA a : a.level <= root)

RECURSIVE SumInner(_)
SumInner(as) == IF as = <<>> THEN 0 ELSE Head(as).inner + SumInner(Tail(as))

\* root.querySelectorAll("a[href] h2, a[href] h3").length
LinkedHeadings(d, root) == SumInner(AnchorsUnder(d, root))

Links(d, root) == Len(AnchorsUnder(d, root))

\* Lines 203-209: the loop entered with counter k at `root`.
RECURSIVE Climb(_, _, _, _)
Climb(d, root, k, max) ==
    IF ~(k < CLIMB_DEPTH /\ root # Null) THEN root
    ELSE IF LinkedHeadings(d, root) >= max \/ Links(d, root) >= MIN_LINKS
         THEN root
         ELSE Climb(d, parentElement(d, root), k + 1, max)

\* Lines 213-218
Candidates(d, root) ==
    SelectSeq(AnchorsUnder(d, root), LAMBDA a : a.inner > 0 \/ a.inHeading)

\* variant: only empty hrefs are dropped
DedupeKeepsAll(cs, seen) == SelectSeq(cs, LAMBDA c : c.href # <<>>)

\* Lines 221-228
RECURSIVE Dedupe(_, _)
Dedupe(cs, seen) ==
    IF cs = <<>> THEN <<>>
    ELSE LET href == Head(cs).href IN
         IF href = <<>> \/ href \in seen
         THEN Dedupe(Tail(cs), seen)
         ELSE <<Head(cs)>> \o Dedupe(Tail(cs), seen \cup {href})

Find(ts, Test(_)) ==
    LET hits == SelectSeq(ts, Test) IN IF hits = <<>> THEN <<>> ELSE Head(hits)

\* Lines 234-252 for one candidate
RawRecord(a) ==
    LET title == norm(a.htext)
        normed == [k \in 1..Len(a.bits) |-> norm(a.bits[k])]
        textBits == SelectSeq(normed, LAMBDA t : t # <<>> /\ t # title)
        category == Find(textBits, LAMBDA t : StrLen(t) >= 3 /\ StrLen(t) <= 45)
        description == Find(textBits, LAMBDA t : StrLen(t) >= 60)
    IN  [title |-> title, url |-> a.href, category |-> category,
         description |-> description]

\* Lines 230-253
RECURSIVE Collect(_, _, _)
Collect(cs, res, max) ==
    IF cs = <<>> \/ Len(res) >= max THEN res
    ELSE IF norm(Head(cs).htext) = <<>> \/ Head(cs).href = <<>>
         THEN Collect(Tail(cs), res, max)
         ELSE Collect(Tail(cs), Append(res, RawRecord(Head(cs))), max)

\* The function run by page.evaluate, lines 194-256
Extract(d, max) ==
    IF FindHeading(d) = 0 THEN <<>>
    ELSE LET root == Climb(d, parentElement(d, Null), 0, max) IN
         IF root = Null THEN <<>>
         ELSE Collect(Dedupe(Candidates(d, root), {}), <<>>, max)

\* Lines 261-267
Cleaned(items) ==
    LET cut == SubSeq(items, 1, Min(Len(items), MAX_ITEMS)) IN
    [k \in 1..Len(cut) |->
        Item(cleanText(cut[k].title), absUrl(cut[k].url),
             cleanText(cut[k].category), cleanText(cut[k].description), <<>>)]

----------------------------------------------------------------------------
(* The main function, lines 180-285 *)

\* Line 187 finds the phrase on the page.
WaitFound ==
    /\ pc = "wait"
    /\ PhraseShown(dom)
    /\ pc' = "evaluate"
    /\ UNCHANGED <<dom, baseItems, cleaned, limit, results, i, workers,
                   outstanding, invoked, fetched, outcome, returned, faults,
                   payload>>

\* Line 187 times out: the rejection leaves the async function.
WaitTimeout ==
    /\ pc = "wait"
    /\ ~PhraseShown(dom)
    /\ pc' = "failed"
    /\ UNCHANGED <<dom, baseItems, cleaned, limit, results, i, workers,
                   outstanding, invoked, fetched, outcome, returned, faults,
                   payload>>

\* Lines 194-258
Evaluate ==
    /\ pc = "evaluate"
    /\ baseItems' = Extract(dom, MAX_ITEMS)
    /\ pc' = "close"
    /\ UNCHANGED <<dom, cleaned, limit, results, i, workers, outstanding,
                   invoked, fetched, outcome, returned, faults, payload>>

\* Lines 261-273 up to the await of mapWithConcurrency's promise
Normalize ==
    /\ pc = "close"
    /\ cleaned' = Cleaned(baseItems)
    /\ limit' = CONCURRENCY
    /\ StartWorkers(cleaned', CONCURRENCY)
    /\ pc' = "enrich"
    /\ UNCHANGED <<dom, baseItems, payload>>

----------------------------------------------------------------------------
(* The limiter on its own: any item list up to MaxN, any limit up to        *)
(* MaxLimit.                                                                *)

Slugs == <<"s1", "s2", "s3", "s4", "s5", "s6", "s7", "s8", "s9", "s10",
           "s11", "s12", "s13", "s14">>

CardHref(k) == <<"/", "news", "/", Slugs[k]>>
CardTitle(k) == <<"Story", " ", Slugs[k]>>

\* A cleaned record as line 261 produces it
Article(k) ==
    Item(CardTitle(k), absUrl(CardHref(k)), <<"Health", " ", "News">>, <<>>, <<>>)

InitLimiter ==
    /\ pc = "call"
    /\ dom = NoDom
    /\ baseItems = <<>>
    /\ \E n \in 0..MaxN, first \in 1..2 :
          cleaned = [k \in 1..n |-> Article(first + k - 1)]
    /\ limit \in 1..MaxLimit
    /\ results = <<>>
    /\ i = 0
    /\ workers = <<>>
    /\ outstanding = {}
    /\ invoked = <<>>
    /\ fetched = <<>>
    /\ outcome = <<>>
    /\ returned = <<>>
    /\ faults = 0
    /\ payload = NoPayload

CallMap ==
    /\ pc = "call"
    /\ StartWorkers(cleaned, limit)
    /\ pc' = "enrich"
    /\ UNCHANGED <<dom, baseItems, cleaned, limit, payload>>

WorkerStep ==
    \E w \in 1..(MaxN + MAX_ITEMS) :
        \/ FetchError(w)
        \/ FetchNotOk(w)
        \/ FetchOk(w)
        \/ TextError(w)
        \/ TextOk(w)

NextLimiter == CallMap \/ WorkerStep \/ Emit

SpecLimiter == InitLimiter /\ [][NextLimiter]_vars

----------------------------------------------------------------------------
(* The whole run over a family of pages *)

MaxDepth == 11     \* deepest ancestor chain of the section heading
MaxCards == 2      \* well-formed cards of the small pages
MaxFeed == 9       \* cards of the large pages

SectionTitle ==
    <<"\n", " ", "You", " ", "MIGHT", "\n", "be", " ", "Interested", " ", "in", ":", " ">>
OtherTitle == <<"You", " ", "might", " ", "like">>

Blurb == <<"Heart-care-program-expands-to-serve-more-southern-Utah-families">>
LongLabel == <<"A-label-that-is-too-long-to-be-a-category-tag-here">>

Card(k, level) ==
    Anchor(CardHref(k), 1, FALSE, CardTitle(k),
           <<LongLabel, CardTitle(k), <<"\n", "Health", " ", " ", "News">>, Blurb>>,
           level)

NavLink(level) == Anchor(<<"/", "locations">>, 0, FALSE, <<>>, <<>>, level)

\* Irregular anchors
RawDup(level) ==          \* the href of the first card once more
    Anchor(CardHref(1), 1, FALSE, <<"Story", " ", "again">>, <<>>, level)
AbsoluteDup(level) ==     \* the first card's address written in full
    Anchor(Origin \o CardHref(1), 1, FALSE, <<"Story", " ", "absolute">>, <<>>, level)
ProtocolDup(level) ==     \* the second card's address, protocol-relative
    Anchor(<<"/", "/", "intermountainhealthcare.org">> \o CardHref(2), 2, FALSE,
           <<"Story", " ", "protocol">>, <<Blurb>>, level)
NoHref(level) ==          \* <a href="">
    Anchor(<<>>, 1, FALSE, <<"No", " ", "link">>, <<>>, level)
BlankTitle(level) ==      \* a heading of whitespace only
    Anchor(CardHref(3), 1, FALSE, <<" ", "\n">>, <<>>, level)
RelativeLink(level) ==    \* a document-relative href, the anchor inside its heading
    Anchor(<<"news", "/", "s6">>, 0, TRUE,
           <<"\t", "Story", "\n", " ", "relative", " ">>, <<<<"News">>>>, level)
PartnerLink(level) ==     \* another site over http
    Anchor(<<"http:", "/", "/", "partner.example", "/", "s7">>, 0, TRUE,
           <<"Partner">>, <<>>, level)
TopLink(level) ==         \* a fragment link
    Anchor(<<"#", "top">>, 1, TRUE, <<"Back", " ", "to", " ", "top">>, <<>>, level)

Extras(level) ==
    { RawDup(level), AbsoluteDup(level), ProtocolDup(level), NoHref(level),
      BlankTitle(level), RelativeLink(level), PartnerLink(level), TopLink(level) }

Cards(from, n, level) == [k \in 1..n |-> Card(from + k - 1, level)]
NavLinks(n, level) == [k \in 1..n |-> NavLink(level)]

\* Pages with few cards: the extras before or after them, and either no
\* other link or MIN_LINKS navigation links one level further up.
SmallPages ==
    { [text |-> FALSE,
       headings |-> <<Heading("h2", OtherTitle), Heading("h2", SectionTitle)>>,
       depth |-> depth,
       anchors |-> NavLinks(nav, 2) \o
                   (IF before THEN extra \o Cards(1, n, 1) ELSE Cards(1, n, 1) \o extra)] :
        depth \in {3, CLIMB_DEPTH, MaxDepth},
        nav \in {0, MIN_LINKS},
        n \in 0..MaxCards,
        extra \in {<<>>} \cup {<<x>> : x \in Extras(1)},
        before \in BOOLEAN }

\* Pages without the section heading: no heading at all, another h2, or
\* the phrase in an h4; the phrase may show in an element that is no heading.
BarePages ==
    { [text |-> text, headings |-> headings, depth |-> 3,
       anchors |-> NavLinks(nav, 1) \o Cards(1, n, 1)] :
        text \in BOOLEAN,
        headings \in {<<>>, <<Heading("h2", OtherTitle)>>,
                      <<Heading("h4", SectionTitle), Heading("h2", OtherTitle)>>},
        nav \in {0, MIN_LINKS},
        n \in {0, MaxCards} }

\* Pages with a full carousel: its cards at `level`, one more card further
\* up the document, and one irregular anchor in front.
LargePages ==
    { [text |-> FALSE,
       headings |-> <<Heading("h1", OtherTitle), Heading("h3", SectionTitle)>>,
       depth |-> 4,
       anchors |-> lead \o Cards(1, MaxFeed, level) \o <<Card(14, level + 1)>>] :
        level \in {1, 2},
        lead \in {<<RawDup(1)>>, <<AbsoluteDup(1)>>, <<RelativeLink(1)>>} }

Pages == SmallPages \cup BarePages \cup LargePages

Init ==
    /\ pc = "wait"
    /\ dom \in Pages
    /\ baseItems = <<>>
    /\ cleaned = <<>>
    /\ limit = CONCURRENCY
    /\ results = <<>>
    /\ i = 0
    /\ workers = <<>>
    /\ outstanding = {}
    /\ invoked = <<>>
    /\ fetched = <<>>
    /\ outcome = <<>>
    /\ returned = <<>>
    /\ faults = 0
    /\ payload = NoPayload

Next ==
    \/ WaitFound
    \/ WaitTimeout
    \/ Evaluate
    \/ Normalize
    \/ WorkerStep
    \/ Emit

Spec == Init /\ [][Next]_vars

----------------------------------------------------------------------------
(* Properties *)

Defined(k) == k \in DOMAIN results /\ results[k] # Undefined
InFlight == {w \in DOMAIN workers : workers[w].st # "done"}
Failed(k) == k \in DOMAIN outcome /\ outcome[k] \in {"rejected", "cut", "notok"}
\* some h1/h2/h3 holds the phrase, whatever its case and white space
HasSectionHeading ==
    \E k \in 1..Len(dom.headings) :
        /\ dom.headings[k].tag \in {"h1", "h2", "h3"}
        /\ includes(toLowerCase(cleanText(dom.headings[k].text)), Phrase)

IsAbsolute(url) ==
    StartsWith(url, <<"http:", "/", "/">>) \/ StartsWith(url, <<"https:", "/", "/">>)

\* C1: in mapWithConcurrency the mapper is invoked exactly once for every
\* index 0..N-1 under every interleaving: no index is claimed twice, two
\* running workers never hold the same index, no index below the cursor is
\* left out, and at the end every index has been processed.
C1_ExactlyOnce ==
    /\ \A k \in DOMAIN invoked : invoked[k] <= 1
    /\ \A v, w \in InFlight : v # w => workers[v].idx # workers[w].idx
    /\ \A k \in DOMAIN invoked : k < i => invoked[k] = 1
    /\ pc = "done" => /\ DOMAIN invoked = 0..(N - 1)
                      /\ \A k \in 0..(N - 1) : invoked[k] = 1

C1_Witness ==
    /\ pc = "done"
    /\ limit >= 2
    /\ N > limit
    /\ \A k \in 0..(N - 1) : invoked[k] = 1

\* C2: when mapWithConcurrency completes its output has length N and
\* output[i] is what the mapper returned for input[i], in input order
\* whatever the order in which the calls finished; a slot filled earlier
\* already holds the value of its own index.
C2_IndexAligned ==
    /\ \A k \in DOMAIN results :
          Defined(k) => /\ results[k] = returned[k]
                        /\ results[k].url = cleaned[k + 1].url
                        /\ results[k].title = cleaned[k + 1].title
    /\ pc = "done" =>
          /\ Len(payload) = N
          /\ \A k \in 1..N : /\ payload[k] = returned[k - 1]
                             /\ payload[k].url = cleaned[k].url
                             /\ payload[k].title = cleaned[k].title

\* a later call has finished before an earlier one
C2_Witness ==
    /\ pc = "enrich"
    /\ N >= 3
    /\ \E j, k \in DOMAIN results : j < k /\ ~Defined(j) /\ Defined(k)

\* C9: at every point of mapWithConcurrency at most min(limit, N) mapper
\* calls are in flight, and each worker has at most one outstanding call,
\* the call for the index it currently holds.
C9_BoundedInFlight ==
    /\ Cardinality(outstanding) <= Min(limit, N)
    /\ Cardinality(InFlight) <= Min(limit, N)
    /\ \A c, e \in outstanding : c.w = e.w => c = e
    /\ \A c \in outstanding : /\ c.w \in InFlight
                              /\ workers[c.w].idx = c.idx

\* the pool is saturated while a worker is already on a later call
C9_Witness ==
    /\ pc = "enrich"
    /\ limit >= 2
    /\ N > limit
    /\ Cardinality(outstanding) = limit
    /\ \E k \in DOMAIN results : Defined(k)

\* C3: no two records of the emitted payload share the same url, and every
\* emitted record has a non-empty title and a non-empty url.
C3_UniqueUrls ==
    pc = "done" =>
        /\ \A j, k \in 1..Len(payload) : j # k => payload[j].url # payload[k].url
        /\ \A k \in 1..Len(payload) : payload[k].title # <<>> /\ payload[k].url # <<>>

\* The candidate anchors the extraction walks.
CandidatesSeen ==
    LET root == Climb(dom, parentElement(dom, Null), 0, MAX_ITEMS) IN
    IF HasSectionHeading /\ root # Null THEN Candidates(dom, root) ELSE <<>>

\* The positions of `cands` whose href is non-empty, seen for the first
\* time, and titled.
Eligible(cands) ==
    {p \in 1..Len(cands) :
        /\ cands[p].href # <<>>
        /\ \A q \in 1..(p - 1) : cands[q].href # cands[p].href
        /\ norm(cands[p].htext) # <<>>}

Kth(E, k) == CHOOSE p \in E : Cardinality({q \in E : q < p}) = k - 1

\* C4: the payload has at most MAX_ITEMS (8) items, and they are the first
\* eligible candidates in the order their hrefs were first encountered;
\* candidates after the cap are ignored.
C4_CappedInOrder ==
    pc = "done" =>
        LET cands == CandidatesSeen
            E == Eligible(cands)
        IN  /\ Len(payload) <= MAX_ITEMS
            /\ Len(payload) = Min(Cardinality(E), MAX_ITEMS)
            /\ \A k \in 1..Len(payload) :
                  /\ payload[k].url = absUrl(cands[Kth(E, k)].href)
                  /\ payload[k].title = norm(cands[Kth(E, k)].htext)

\* more eligible candidates than the cap, and a repeated href among them
C4_Witness ==
    /\ pc = "done"
    /\ Len(payload) = MAX_ITEMS
    /\ LET cands == CandidatesSeen
           E == Eligible(cands)
       IN  /\ Cardinality(E) > MAX_ITEMS
           /\ \E p, q \in 1..Len(cands) : p < q /\ cands[p].href = cands[q].href

\* C5: a secondary fetch that fails (rejected fetch or body read, or a
\* non-success status) gives that item the image "" without leaving the
\* run, is not retried, and the batch still finishes with a record for every
\* item.
C5_FailureIsolated ==
    /\ \A k \in DOMAIN fetched : fetched[k] <= 1
    /\ \A k \in DOMAIN results :
          Defined(k) /\ (Failed(k) \/ ~Web(cleaned[k + 1].url).ok)
              => results[k].imageUrl = <<>>
    /\ pc = "failed" => workers = <<>>
    /\ pc = "done" =>
          /\ Len(payload) = N
          /\ \A k \in 1..N :
                /\ payload[k] # Undefined
                /\ (Failed(k - 1) \/ ~Web(cleaned[k].url).ok)
                       => payload[k].imageUrl = <<>>

\* one item's fetch was rejected, another's status was not a success, a
\* third one got its image
C5_Witness ==
    /\ pc = "done"
    /\ \E j, k, m \in DOMAIN outcome :
          /\ outcome[j] \in {"rejected", "cut"}
          /\ outcome[k] = "notok"
          /\ outcome[m] = "ok"
          /\ payload[m + 1].imageUrl # <<>>
          /\ payload[j + 1].imageUrl = <<>>

\* C6: every url of the emitted payload is absolute: it begins with http://
\* or https://.
C6_AbsoluteUrls ==
    pc = "done" => \A k \in 1..Len(payload) : IsAbsolute(payload[k].url)

\* The container the section locator is said to settle on: the first of the
\* heading's ancestors, within the climb, that shows enough linked headings
\* or links, and failing that the highest ancestor the climb reaches.
ExpectedContainer ==
    LET reach == Min(dom.depth, CLIMB_DEPTH)
        enough == {r \in 1..reach :
                      \/ LinkedHeadings(dom, r) >= MAX_ITEMS
                      \/ Links(dom, r) >= MIN_LINKS}
    IN  IF enough # {} THEN CHOOSE r \in enough : \A q \in enough : r <= q
        ELSE Min(dom.depth, CLIMB_DEPTH + 1)

\* C7: whenever the target heading is present the section locator returns a
\* container, never "not found", and card extraction runs on it.
C7_ContainerWheneverHeading ==
    (HasSectionHeading /\ pc \in {"close", "enrich", "done"}) =>
        /\ Climb(dom, parentElement(dom, Null), 0, MAX_ITEMS) # Null
        /\ baseItems = Collect(Dedupe(Candidates(dom, ExpectedContainer), {}),
                               <<>>, MAX_ITEMS)

C10_OnlyImageChanges ==
    LET Same(a, b) == /\ a.title = b.title
                      /\ a.url = b.url
                      /\ a.category = b.category
                      /\ a.description = b.description
    IN  /\ \A k \in DOMAIN results : Defined(k) => Same(results[k], cleaned[k + 1])
        /\ pc = "done" =>
              /\ Len(payload) = Len(cleaned)
              /\ \A k \in 1..Len(cleaned) : Same(payload[k], cleaned[k])

\* a record with category and description got an image, another one failed
C10_Witness ==
    /\ pc = "done"
    /\ \E j, k \in 1..Len(payload) :
          /\ payload[j].imageUrl # <<>>
          /\ payload[j].category # <<>>
          /\ payload[j].description # <<>>
          /\ Failed(k - 1)
          /\ payload[k].description # <<>>

====
